---- MODULE Spec2Model ----
(***************************************************************************)
(* Risk-gated transfer engine of Blockchain Sentinel.                      *)
(*                                                                         *)
(* The persistent state is the PostgreSQL schema of database/init.sql      *)
(* (tables users, wallets, transactions, blocked_transfers, user_warnings, *)
(* blacklist, alerts) with its two triggers, trg_update_wallet_stats and   *)
(* trg_suspend_user_on_warnings.  The request handlers of the backend      *)
(* (POST /transfer/protected, backend/app/main.py) follow the decision     *)
(* policy of sections 4.1-4.5 of the design document and run against the   *)
(* tables and triggers of the schema.                                      *)
(***************************************************************************)
EXTENDS Integers, Sequences, FiniteSets, TLC

\* ---------------------------------------------------------------- bounds
MaxLedger   == 3    \* rows the transactions table may hold
MaxWarnings == 4    \* rows the user_warnings table may hold
MaxBlocked  == 1    \* rows the blocked_transfers table may hold
MaxAmount   == 1    \* largest amount of one transfer
Now         == 1    \* CURRENT_TIMESTAMP while the requests are served
MaxRequests == 3    \* transfer requests the exchange page may send

\* ------------------------------------------------------ program constants
SuspendThreshold  == 3      \* WHEN (newRow.warning_count >= 3 AND oldRow.warning_count < 3)
CriticalThreshold == 80     \* data.risk_score >= 80 ? 'CRITICAL'
HighThreshold     == 60     \* data.risk_score >= 60 ? 'HIGH'
MediumThreshold   == 40     \* data.risk_score >= 40 ? 'MEDIUM'
SentinelMaxScore  == 100    \* CHECK (risk_score >= 0 AND risk_score <= 100)
SuspendAlertScore == 80     \* risk_score of the USER_SUSPENDED alert
DefaultScore      == 0      \* risk_score NUMERIC(5,2) DEFAULT 0.00
AliceScore        == 5      \* risk_score of the seeded wallet of alice_nguyen
BadgeCritical     == 90     \* wallet.risk_score >= 90 ? "critical"
BadgeHigh         == 70     \* wallet.risk_score >= 70 ? "high"
BadgeMedium       == 50     \* wallet.risk_score >= 50 ? "medium"
SyncLength        == 3      \* value.length >= 10, scaled as AddressLength is

\* ------------------------------------------------------------ value sets
Handlers   == {"h1", "h2"}              \* concurrent request handlers
Rank       == [h \in Handlers |-> IF h = "h1" THEN 1 ELSE 2]
\* Addresses are strings of characters, here "0x" and two hex digits
ALICE      == <<"0", "x", "a", "0">>    \* wallet of the registered user
BOB        == <<"0", "x", "b", "0">>    \* the recipient under evaluation
BOB_NEIGHBOUR == <<"0", "x", "b", "1">> \* an address sharing a prefix with BOB
GENESIS    == <<"0", "x", "0", "0">>    \* funding address, never registered
MALFORMED  == <<"0", "x", "b">>         \* a truncated address
NullAddr   == << >>                     \* SQL NULL in an address column
AddressLength == 4                      \* characters of a well-formed address
NullTime   == -1                        \* SQL NULL in a timestamp column
USER       == "alice_nguyen"            \* the user owning ALICE
Users      == {USER}
ScoreSamples == {59, 60, 79, 80}        \* recipient scores around the thresholds
Amounts    == 0..MaxAmount
NoReq      == [from |-> NullAddr, to |-> NullAddr, amount |-> 0, override |-> FALSE]
NoResp     == [status |-> "none", block_reason |-> "", tx_hash |-> 0,
               current_warnings |-> 0, address |-> NullAddr, risk_level |-> "",
               risk_score |-> 0]

VARIABLES
    wallets,            \* table wallets: address -> row, on the registered addresses
    transactions,       \* table transactions (the ledger), in insertion order
    users,              \* table users: user -> row
    user_warnings,      \* table user_warnings, in insertion order
    blocked_transfers,  \* table blocked_transfers, in insertion order
    alerts,             \* table alerts, in insertion order
    blacklist,          \* table blacklist: set of rows
    nextHash,           \* next engine-generated transfer hash
    pc,                 \* position of each request handler
    req,                \* request each handler is serving
    resp,               \* response each handler has produced
    exchange,           \* React state of the user exchange page
    network,            \* requests of the exchange page under way
    session             \* auth context, route, admin layout and login page of a browser

\* The browser pages, which the request handlers of the engine do not touch
pageVars == <<exchange, network, session>>

\* The store and the request handlers, which the pages do not touch directly
engineVars == <<wallets, transactions, users, user_warnings, blocked_transfers,
                alerts, blacklist, nextHash, pc, req, resp>>

vars == <<wallets, transactions, users, user_warnings, blocked_transfers, alerts,
          blacklist, nextHash, pc, req, resp, exchange, network, session>>

\* ------------------------------------------------------------ table rows
\* INSERT INTO wallets (address, risk_score): every other column takes its DEFAULT
NewWallet(score) ==
    [risk_score |-> score, account_status |-> "active",
     total_transactions |-> 0, total_value_sent |-> 0, total_value_received |-> 0,
     last_activity_at |-> NullTime, flagged_at |-> NullTime, flagged_by |-> "NULL"]

\* ------------------------------------------------- ledger-derived balance
RECURSIVE SumWhere(_, _, _)
\* SUM(CASE WHEN t.<col> = address THEN t.value ELSE 0 END) over the ledger
SumWhere(ledger, col, address) ==
    IF ledger = <<>> THEN 0
    ELSE (IF Head(ledger)[col] = address THEN Head(ledger).value ELSE 0)
         + SumWhere(Tail(ledger), col, address)

total_received(ledger, address) == SumWhere(ledger, "to_address", address)
total_sent(ledger, address)     == SumWhere(ledger, "from_address", address)
balance_wei(ledger, address)    == total_received(ledger, address) - total_sent(ledger, address)

\* ------------------------------------------------------- schema: triggers
\* Variant of update_wallet_stats() whose receiver UPDATE starts from the row
\* as it was before the sender UPDATE
update_wallet_stats_from_old_row(w, newRow) ==
    LET sender == [a \in DOMAIN w |->
                     IF a = newRow.from_address
                     THEN [w[a] EXCEPT !.total_transactions = @ + 1,
                                       !.total_value_sent = @ + newRow.value,
                                       !.last_activity_at = newRow.timestamp]
                     ELSE w[a]]
    IN IF newRow.to_address # NullAddr
       THEN [a \in DOMAIN sender |->
               IF a = newRow.to_address
               THEN [w[a] EXCEPT !.total_transactions = @ + 1,
                                 !.total_value_received = @ + newRow.value,
                                 !.last_activity_at = newRow.timestamp]
               ELSE sender[a]]
       ELSE sender

\* Variant of update_wallet_stats() whose sender UPDATE subtracts the value
update_wallet_stats_subtracting(w, newRow) ==
    LET sender == [a \in DOMAIN w |->
                     IF a = newRow.from_address
                     THEN [w[a] EXCEPT !.total_transactions = @ + 1,
                                       !.total_value_sent = @ - newRow.value,
                                       !.last_activity_at = newRow.timestamp]
                     ELSE w[a]]
    IN IF newRow.to_address # NullAddr
       THEN [a \in DOMAIN sender |->
               IF a = newRow.to_address
               THEN [sender[a] EXCEPT !.total_transactions = @ + 1,
                                      !.total_value_received = @ + newRow.value,
                                      !.last_activity_at = newRow.timestamp]
               ELSE sender[a]]
       ELSE sender

\* Variant of update_wallet_stats() whose receiver UPDATE repeats the sender's column
update_wallet_stats_same_column(w, newRow) ==
    LET sender == [a \in DOMAIN w |->
                     IF a = newRow.from_address
                     THEN [w[a] EXCEPT !.total_transactions = @ + 1,
                                       !.total_value_sent = @ + newRow.value,
                                       !.last_activity_at = newRow.timestamp]
                     ELSE w[a]]
    IN IF newRow.to_address # NullAddr
       THEN [a \in DOMAIN sender |->
               IF a = newRow.to_address
               THEN [sender[a] EXCEPT !.total_transactions = @ + 1,
                                      !.total_value_sent = @ + newRow.value,
                                      !.last_activity_at = newRow.timestamp]
               ELSE sender[a]]
       ELSE sender

\* Body of update_wallet_stats(): two UPDATE statements, each touching the
\* rows WHERE address = ... (none when the address has no wallets row).
update_wallet_stats(w, newRow) ==
    LET sender == [a \in DOMAIN w |->
                     IF a = newRow.from_address
                     THEN [w[a] EXCEPT !.total_transactions = @ + 1,
                                       !.total_value_sent = @ + newRow.value,
                                       !.last_activity_at = newRow.timestamp]
                     ELSE w[a]]
    IN IF newRow.to_address # NullAddr
       THEN [a \in DOMAIN sender |->
               IF a = newRow.to_address
               THEN [sender[a] EXCEPT !.total_transactions = @ + 1,
                                      !.total_value_received = @ + newRow.value,
                                      !.last_activity_at = newRow.timestamp]
               ELSE sender[a]]
       ELSE sender

\* Constraints an INSERT INTO transactions must pass: PRIMARY KEY (id, timestamp).
\* idx_transactions_hash is a plain index: tx_hash carries no uniqueness.
transactions_pkey(ledger, newRow) ==
    \A i \in 1..Len(ledger) :
        ~(ledger[i].id = newRow.id /\ ledger[i].timestamp = newRow.timestamp)

\* A transactions row; id takes DEFAULT uuid_generate_v4(), a fresh value.
TxRow(ledger, hash, from, to, value, ts) ==
    [id |-> Len(ledger) + 1, tx_hash |-> hash, from_address |-> from,
     to_address |-> to, value |-> value, timestamp |-> ts]

\* Variant of the WHEN clause that drops the OLD.warning_count < 3 edge test
trg_suspend_level_triggered(oldRow, newRow) ==
    newRow.warning_count >= SuspendThreshold

\* Variant of the WHEN clause whose edge sits one strike late (> 3 for >= 3)
trg_suspend_off_by_one(oldRow, newRow) ==
    newRow.warning_count > SuspendThreshold /\ oldRow.warning_count <= SuspendThreshold

\* WHEN clause of trg_suspend_user_on_warnings
trg_suspend_user_on_warnings(oldRow, newRow) ==
    newRow.warning_count >= SuspendThreshold /\ oldRow.warning_count < SuspendThreshold

\* Variant of the UPDATE that also clears the cached totals of the wallet
suspend_clearing_totals(w, newRow, ts) ==
    IF newRow.warning_count >= SuspendThreshold
    THEN [a \in DOMAIN w |->
            IF a = newRow.wallet_address
            THEN [w[a] EXCEPT !.account_status = "suspended",
                              !.flagged_at = ts,
                              !.flagged_by = "SYSTEM_AUTO_SUSPEND",
                              !.total_value_sent = 0,
                              !.total_value_received = 0]
            ELSE w[a]]
    ELSE w

\* Variant of the UPDATE that sets the status without stamping the flag columns
suspend_without_stamp(w, newRow, ts) ==
    IF newRow.warning_count >= SuspendThreshold
    THEN [a \in DOMAIN w |->
            IF a = newRow.wallet_address
            THEN [w[a] EXCEPT !.account_status = "suspended"]
            ELSE w[a]]
    ELSE w

\* Body of suspend_user_on_warnings(): the wallets table after the UPDATE
suspend_user_on_warnings(w, newRow, ts) ==
    IF newRow.warning_count >= SuspendThreshold
    THEN [a \in DOMAIN w |->
            IF a = newRow.wallet_address
            THEN [w[a] EXCEPT !.account_status = "suspended",
                              !.flagged_at = ts,
                              !.flagged_by = "SYSTEM_AUTO_SUSPEND"]
            ELSE w[a]]
    ELSE w

\* Body of suspend_user_on_warnings(): the rows it INSERTs INTO alerts
suspend_alerts(newRow) ==
    IF newRow.warning_count >= SuspendThreshold
    THEN << [wallet_address |-> newRow.wallet_address, alert_type |-> "USER_SUSPENDED",
             severity |-> "HIGH", risk_score |-> SuspendAlertScore] >>
    ELSE << >>

\* ------------------------------------------------- blacklist and risk level
\* Variant of the lookup that matches an entry on all but the last character
IsBlacklistedByPrefix(bl, address, ts) ==
    \E e \in bl : /\ Len(e.address) = Len(address)
                  /\ SubSeq(e.address, 1, Len(address) - 1)
                        = SubSeq(address, 1, Len(address) - 1)
                  /\ e.is_active
                  /\ (e.expires_at = NullTime \/ e.expires_at > ts)

\* IsBlacklisted: an entry with this exact address, active, and not expired
IsBlacklisted(bl, address, ts) ==
    \E e \in bl : /\ e.address = address
                  /\ e.is_active
                  /\ (e.expires_at = NullTime \/ e.expires_at > ts)

\* Variant of riskLevel with the CRITICAL bound exclusive (> 80 for >= 80)
RiskLevelCriticalExclusive(risk_score) ==
    IF risk_score > CriticalThreshold THEN "CRITICAL"
    ELSE IF risk_score >= HighThreshold THEN "HIGH"
    ELSE IF risk_score >= MediumThreshold THEN "MEDIUM"
    ELSE "LOW"

\* Variant of riskLevel with the HIGH bound exclusive (> 60 for >= 60)
RiskLevelHighExclusive(risk_score) ==
    IF risk_score >= CriticalThreshold THEN "CRITICAL"
    ELSE IF risk_score > HighThreshold THEN "HIGH"
    ELSE IF risk_score >= MediumThreshold THEN "MEDIUM"
    ELSE "LOW"

\* Variant of riskLevel that starts HIGH at the MEDIUM bound
RiskLevelHighFromMedium(risk_score) ==
    IF risk_score >= CriticalThreshold THEN "CRITICAL"
    ELSE IF risk_score >= MediumThreshold THEN "HIGH"
    ELSE "LOW"

\* const riskLevel = data.risk_score >= 80 ? 'CRITICAL' : >= 60 ? 'HIGH' : >= 40 ? 'MEDIUM' : 'LOW'
RiskLevel(risk_score) ==
    IF risk_score >= CriticalThreshold THEN "CRITICAL"
    ELSE IF risk_score >= HighThreshold THEN "HIGH"
    ELSE IF risk_score >= MediumThreshold THEN "MEDIUM"
    ELSE "LOW"

\* Badge variant of the admin dashboard for a wallet's risk_score
BadgeVariant(risk_score) ==
    IF risk_score >= BadgeCritical THEN "critical"
    ELSE IF risk_score >= BadgeHigh THEN "high"
    ELSE IF risk_score >= BadgeMedium THEN "medium"
    ELSE "low"

\* Variant of the evaluator that scores an unknown recipient at the maximum
EvaluateUnknownAsCritical(bl, w, address, ts) ==
    IF IsBlacklisted(bl, address, ts) \/ address \notin DOMAIN w
    THEN [level |-> "CRITICAL",
          score |-> IF address \in DOMAIN w THEN w[address].risk_score ELSE SentinelMaxScore]
    ELSE [level |-> RiskLevel(w[address].risk_score), score |-> w[address].risk_score]

\* Evaluate(recipient): the verdict of the risk evaluator
Evaluate(bl, w, address, ts) ==
    IF IsBlacklisted(bl, address, ts)
    THEN [level |-> "CRITICAL",
          score |-> IF address \in DOMAIN w THEN w[address].risk_score ELSE SentinelMaxScore]
    ELSE IF address \in DOMAIN w
         THEN [level |-> RiskLevel(w[address].risk_score), score |-> w[address].risk_score]
         ELSE [level |-> "LOW", score |-> 0]

\* An address is well-formed: "0x" followed by the fixed number of digits
WellFormed(address) ==
    /\ Len(address) = AddressLength
    /\ address[1] = "0"
    /\ address[2] = "x"

\* Structural validation: addresses well-formed, amount > 0, enough derived balance
Validate(ledger, r) ==
    /\ WellFormed(r.from)
    /\ WellFormed(r.to)
    /\ r.amount > 0
    /\ balance_wei(ledger, r.from) >= r.amount

\* Variant of the decision policy that escalates HIGH to BLOCKED for a
\* sender whose wallet is already suspended
DecisionBySenderStatus(bl, w, ledger, r, ts) ==
    LET v == Evaluate(bl, w, r.to, ts)
    IN IF ~Validate(ledger, r) THEN "REJECTED"
       ELSE IF v.level = "CRITICAL" THEN "BLOCKED"
       ELSE IF v.level = "HIGH" /\ w[r.from].account_status = "suspended" THEN "BLOCKED"
       ELSE IF v.level = "HIGH" THEN (IF r.override THEN "ALLOWED" ELSE "WARNED")
       ELSE "ALLOWED"

\* Variant of the decision policy that takes the verdict before validating
DecisionVerdictFirst(bl, w, ledger, r, ts) ==
    LET v == Evaluate(bl, w, r.to, ts)
    IN IF v.level = "CRITICAL" THEN "BLOCKED"
       ELSE IF ~Validate(ledger, r) THEN "REJECTED"
       ELSE IF v.level = "HIGH" THEN (IF r.override THEN "ALLOWED" ELSE "WARNED")
       ELSE "ALLOWED"

\* Variant of the decision policy that honours the override before the verdict
DecisionOverrideFirst(bl, w, ledger, r, ts) ==
    LET v == Evaluate(bl, w, r.to, ts)
    IN IF ~Validate(ledger, r) THEN "REJECTED"
       ELSE IF r.override THEN "ALLOWED"
       ELSE IF v.level = "CRITICAL" THEN "BLOCKED"
       ELSE IF v.level = "HIGH" THEN "WARNED"
       ELSE "ALLOWED"

\* Decision policy of the transfer gate, in precedence order
Decision(bl, w, ledger, r, ts) ==
    LET v == Evaluate(bl, w, r.to, ts)
    IN IF ~Validate(ledger, r) THEN "REJECTED"
       ELSE IF v.level = "CRITICAL" THEN "BLOCKED"
       ELSE IF v.level = "HIGH" THEN (IF r.override THEN "ALLOWED" ELSE "WARNED")
       ELSE "ALLOWED"

\* Variant of block_reason that looks at the stored score before the blacklist
BlockReasonScoreFirst(bl, address, ts) ==
    IF address \in DOMAIN wallets /\ wallets[address].risk_score >= CriticalThreshold
    THEN "high_risk_score"
    ELSE "blacklisted"

\* block_reason of a BlockedTransferRecord: blacklisted beats high_risk_score
BlockReason(bl, address, ts) ==
    IF IsBlacklisted(bl, address, ts) THEN "blacklisted" ELSE "high_risk_score"

\* ------------------------------------------------- pages: initial state
WALLET_ID   == <<"w", "7">>     \* a wallet id that is not an address
NoRisk      == [risk_score |-> -1, risk_level |-> "null"]   \* receiverRisk === null
NoTransfer  == [from |-> NullAddr, to |-> NullAddr, amount |-> 0, confirmRisk |-> FALSE]

\* useState(...) of the exchange page, the sender filled from user.wallet_address
ExchangeInitial ==
    [fromWalletId |-> ALICE, toWalletId |-> NullAddr, toAddress |-> NullAddr,
     amount |-> 0, receiverRisk |-> NoRisk, debounce |-> FALSE,
     isPending |-> FALSE, transferResponse |-> "null",
     showWarningDialog |-> FALSE, showBlockedDialog |-> FALSE,
     showSuccessDialog |-> FALSE]

\* No fetchWalletBalance call under way, no transfer request sent yet
NetworkIdle ==
    [lookups |-> {}, sent |-> 0, request |-> NoTransfer, status |-> "none"]

\* No redirect timer is set
NoTimer == [armed |-> FALSE, isAuthenticated |-> FALSE, role |-> "null"]

\* useAuth() while the stored session is being restored, the admin dashboard
\* requested, the loading view rendered, the login form untouched
SessionInitial ==
    [isLoading |-> TRUE, isAuthenticated |-> FALSE, role |-> "null",
     pathname |-> "/admin/dashboard", timer |-> NoTimer, rendered |-> "loading",
     loginPending |-> FALSE, loginError |-> FALSE]

\* ------------------------------------------------------------------ Init
\* The blacklist is maintained by an external governance process and only
\* read here: each behaviour starts from one of its possible contents for BOB.
BlacklistEntry(active, expires) ==
    [address |-> BOB, is_active |-> active, expires_at |-> expires]

\* An active entry for another address, which shares a prefix with BOB
NeighbourEntry ==
    [address |-> BOB_NEIGHBOUR, is_active |-> TRUE, expires_at |-> NullTime]

BlacklistContents ==
    { {},
      {BlacklistEntry(TRUE, NullTime)},
      {BlacklistEntry(TRUE, Now + 1)},
      {BlacklistEntry(TRUE, Now), NeighbourEntry},
      {BlacklistEntry(FALSE, NullTime), NeighbourEntry} }

Init ==
    /\ \E registered \in BOOLEAN, score \in ScoreSamples :
          wallets = IF registered
                    THEN (ALICE :> NewWallet(AliceScore)) @@ (BOB :> NewWallet(score))
                    ELSE (ALICE :> NewWallet(AliceScore))
    /\ blacklist \in BlacklistContents
    /\ transactions = << >>
    /\ users = [u \in Users |-> [wallet_address |-> ALICE, warning_count |-> 0]]
    /\ user_warnings = << >>
    /\ blocked_transfers = << >>
    /\ alerts = << >>
    /\ nextHash = 1
    /\ pc = [h \in Handlers |-> "idle"]
    /\ req = [h \in Handlers |-> NoReq]
    /\ resp = [h \in Handlers |-> NoResp]
    /\ exchange = ExchangeInitial
    /\ network = NetworkIdle
    /\ session = SessionInitial

\* --------------------------------------------------------- store operations
\* INSERT INTO transactions ...: the row is appended and, in the same
\* statement, trg_update_wallet_stats runs update_wallet_stats() for it.
InsertTransaction(row) ==
    /\ transactions_pkey(transactions, row)
    /\ transactions' = Append(transactions, row)
    /\ wallets' = update_wallet_stats(wallets, row)

\* alerts.wallet_address VARCHAR(255) NOT NULL: the rows pass the constraint
alerts_wallet_address_not_null(rows) ==
    \A i \in DOMAIN rows : rows[i].wallet_address # NullAddr

\* The AFTER UPDATE trigger of users fires for this update and the INSERT INTO
\* alerts of its function raises a not-null violation, which aborts the UPDATE
TriggerRaises(oldRow, newRow) ==
    /\ trg_suspend_user_on_warnings(oldRow, newRow)
    /\ ~alerts_wallet_address_not_null(suspend_alerts(newRow))

\* RecordWarning(user, target, score) for a transfer sent from sender: UPDATE
\* users SET warning_count = warning_count + 1, INSERT INTO user_warnings
\* with the new count, and the AFTER UPDATE trigger of users, all in one
\* transaction, which goes through when the trigger raises no error.
RecordWarning(u, sender, target, score) ==
    LET oldRow == users[u]
        newRow == [oldRow EXCEPT !.warning_count = @ + 1]
        fire   == trg_suspend_user_on_warnings(oldRow, newRow)
    IN /\ ~TriggerRaises(oldRow, newRow)
       /\ users' = [users EXCEPT ![u] = newRow]
       /\ user_warnings' = Append(user_warnings,
             [user_id |-> u, wallet_address |-> sender,
              target_address |-> target, risk_score |-> score,
              warning_number |-> newRow.warning_count])
       /\ wallets' = IF fire THEN suspend_user_on_warnings(wallets, newRow, Now) ELSE wallets
       /\ alerts' = IF fire THEN alerts \o suspend_alerts(newRow) ELSE alerts

\* ---------------------------------------------------------------- actions
\* Ingestion of a funding transfer from the genesis address to ALICE
Ingest ==
    /\ Len(transactions) < MaxLedger
    /\ InsertTransaction(TxRow(transactions, nextHash, GENESIS, ALICE, MaxAmount, Now))
    /\ nextHash' = nextHash + 1
    /\ UNCHANGED <<pageVars, users, user_warnings, blocked_transfers, alerts, blacklist,
                   pc, req, resp>>

\* INSERT INTO wallets (address, ...) ... ON CONFLICT (address) DO NOTHING
RegisterWallet ==
    /\ \E a \in {ALICE, BOB} :
          /\ a \notin DOMAIN wallets
          /\ wallets' = wallets @@ (a :> NewWallet(DefaultScore))
    /\ UNCHANGED <<pageVars, transactions, users, user_warnings, blocked_transfers, alerts,
                   blacklist, nextHash, pc, req, resp>>

\* The transfer requests {from, to, amount, override} a handler may receive
Requests ==
    { [from |-> ALICE, to |-> BOB, amount |-> amount, override |-> override] :
        amount \in Amounts, override \in BOOLEAN }
    \cup { [from |-> ALICE, to |-> MALFORMED, amount |-> MaxAmount, override |-> FALSE] }

\* The pool hands a request to its first free handler
Free(h) ==
    /\ pc[h] = "idle"
    /\ \A g \in Handlers : (pc[g] = "idle") => (Rank[h] <= Rank[g])

\* fetchReceiverRisk(address) of the exchange page: an address that is not
\* well-formed is not looked up; otherwise the risk data of the recipient is
\* read and riskLevel is derived from data.risk_score.
fetchReceiverRisk(h) ==
    /\ Free(h)
    /\ \E address \in {BOB, MALFORMED} :
          LET data == Evaluate(blacklist, wallets, address, Now)
          IN /\ ~(Len(address) < AddressLength \/ ~(address[1] = "0" /\ address[2] = "x"))
             /\ resp' = [resp EXCEPT ![h] = [NoResp EXCEPT !.status = "risk",
                                                          !.address = address,
                                                          !.risk_score = data.score,
                                                          !.risk_level = RiskLevel(data.score)]]
    /\ pc' = [pc EXCEPT ![h] = "done"]
    /\ UNCHANGED <<pageVars, wallets, transactions, users, user_warnings, blocked_transfers,
                   alerts, blacklist, nextHash, req>>

\* Gate, step 1 fails: the request is rejected before any risk evaluation
Reject(h) ==
    /\ Free(h)
    /\ \E r \in Requests :
          /\ Decision(blacklist, wallets, transactions, r, Now) = "REJECTED"
          /\ req' = [req EXCEPT ![h] = r]
    /\ resp' = [resp EXCEPT ![h] = [NoResp EXCEPT !.status = "rejected"]]
    /\ pc' = [pc EXCEPT ![h] = "done"]
    /\ UNCHANGED <<pageVars, wallets, transactions, users, user_warnings, blocked_transfers,
                   alerts, blacklist, nextHash>>

\* Variant of the BLOCKED branch that also charges the sender a strike
BlockCountingStrike(h) ==
    /\ Free(h)
    /\ Len(blocked_transfers) < MaxBlocked
    /\ \E r \in Requests :
          LET v == Evaluate(blacklist, wallets, r.to, Now)
              reason == BlockReason(blacklist, r.to, Now)
          IN /\ Decision(blacklist, wallets, transactions, r, Now) = "BLOCKED"
             /\ req' = [req EXCEPT ![h] = r]
             /\ blocked_transfers' = Append(blocked_transfers,
                   [sender_address |-> r.from, receiver_address |-> r.to,
                    amount |-> r.amount, risk_score |-> v.score,
                    block_reason |-> reason,
                    user_warning_count |-> users[USER].warning_count])
             /\ users' = [users EXCEPT ![USER].warning_count = @ + 1]
             /\ resp' = [resp EXCEPT ![h] = [NoResp EXCEPT !.status = "blocked",
                                                          !.block_reason = reason]]
    /\ pc' = [pc EXCEPT ![h] = "done"]
    /\ UNCHANGED <<pageVars, wallets, transactions, user_warnings, alerts, blacklist,
                   nextHash>>

\* Gate, step 3: CRITICAL verdict, the transfer is blocked and audited
Block(h) ==
    /\ Free(h)
    /\ Len(blocked_transfers) < MaxBlocked
    /\ \E r \in Requests :
          LET v == Evaluate(blacklist, wallets, r.to, Now)
              reason == BlockReason(blacklist, r.to, Now)
          IN /\ Decision(blacklist, wallets, transactions, r, Now) = "BLOCKED"
             /\ req' = [req EXCEPT ![h] = r]
             /\ blocked_transfers' = Append(blocked_transfers,
                   [sender_address |-> r.from, receiver_address |-> r.to,
                    amount |-> r.amount, risk_score |-> v.score,
                    block_reason |-> reason,
                    user_warning_count |-> users[USER].warning_count])
             /\ resp' = [resp EXCEPT ![h] = [NoResp EXCEPT !.status = "blocked",
                                                          !.block_reason = reason]]
    /\ pc' = [pc EXCEPT ![h] = "done"]
    /\ UNCHANGED <<pageVars, wallets, transactions, users, user_warnings, alerts, blacklist,
                   nextHash>>

\* Gate, step 4 without override: HIGH verdict, a strike is recorded
Warn(h) ==
    /\ Free(h)
    /\ Len(user_warnings) < MaxWarnings
    /\ \E r \in Requests :
          LET v == Evaluate(blacklist, wallets, r.to, Now)
          IN /\ Decision(blacklist, wallets, transactions, r, Now) = "WARNED"
             /\ req' = [req EXCEPT ![h] = r]
             /\ RecordWarning(USER, r.from, r.to, v.score)
             /\ resp' = [resp EXCEPT ![h] = [NoResp EXCEPT !.status = "warning",
                               !.current_warnings = users[USER].warning_count + 1]]
    /\ pc' = [pc EXCEPT ![h] = "done"]
    /\ UNCHANGED <<pageVars, transactions, blocked_transfers, blacklist, nextHash>>

\* Gate, step 4 without override, when the strike cannot be recorded: the
\* trigger raises, the transaction is rolled back and the caller is told
WarnFail(h) ==
    /\ Free(h)
    /\ \E r \in Requests :
          /\ Decision(blacklist, wallets, transactions, r, Now) = "WARNED"
          /\ req' = [req EXCEPT ![h] = r]
    /\ TriggerRaises(users[USER], [users[USER] EXCEPT !.warning_count = @ + 1])
    /\ resp' = [resp EXCEPT ![h] = [NoResp EXCEPT !.status = "error"]]
    /\ pc' = [pc EXCEPT ![h] = "done"]
    /\ UNCHANGED <<pageVars, wallets, transactions, users, user_warnings, blocked_transfers,
                   alerts, blacklist, nextHash>>

\* Variant of the ALLOWED branch that charges a strike when the caller
\* overrides a warning
AllowChargingStrike(h) ==
    /\ Free(h)
    /\ \E r \in Requests :
          /\ Decision(blacklist, wallets, transactions, r, Now) = "ALLOWED"
          /\ req' = [req EXCEPT ![h] = r]
          /\ users' = [users EXCEPT ![USER].warning_count =
                          IF r.override /\ @ < MaxWarnings THEN @ + 1 ELSE @]
    /\ pc' = [pc EXCEPT ![h] = "committing"]
    /\ UNCHANGED <<pageVars, wallets, transactions, user_warnings, blocked_transfers,
                   alerts, blacklist, nextHash, resp>>

\* Gate, steps 4 with override and 5: the transfer goes to the commit path
Allow(h) ==
    /\ Free(h)
    /\ \E r \in Requests :
          /\ Decision(blacklist, wallets, transactions, r, Now) = "ALLOWED"
          /\ req' = [req EXCEPT ![h] = r]
    /\ pc' = [pc EXCEPT ![h] = "committing"]
    /\ UNCHANGED <<pageVars, wallets, transactions, users, user_warnings, blocked_transfers,
                   alerts, blacklist, nextHash, resp>>

\* Commit(from, to, amount, timestamp): the INSERT and its trigger
Commit(h) ==
    /\ pc[h] = "committing"
    /\ Len(transactions) < MaxLedger
    /\ InsertTransaction(TxRow(transactions, nextHash, req[h].from, req[h].to,
                               req[h].amount, Now))
    /\ nextHash' = nextHash + 1
    /\ resp' = [resp EXCEPT ![h] = [NoResp EXCEPT !.status = "success",
                                                 !.tx_hash = nextHash]]
    /\ pc' = [pc EXCEPT ![h] = "done"]
    /\ UNCHANGED <<pageVars, users, user_warnings, blocked_transfers, alerts, blacklist, req>>

\* The store fails during the commit: nothing is written, the caller is told
CommitFail(h) ==
    /\ pc[h] = "committing"
    /\ resp' = [resp EXCEPT ![h] = [NoResp EXCEPT !.status = "error"]]
    /\ pc' = [pc EXCEPT ![h] = "done"]
    /\ UNCHANGED <<pageVars, wallets, transactions, users, user_warnings, blocked_transfers,
                   alerts, blacklist, nextHash, req>>

\* A commit that already succeeded is re-submitted with the same transfer hash
RetryCommit(h) ==
    /\ pc[h] = "done"
    /\ resp[h].status = "success"
    /\ Len(transactions) < MaxLedger
    /\ InsertTransaction(TxRow(transactions, resp[h].tx_hash, req[h].from, req[h].to,
                               req[h].amount, Now))
    /\ UNCHANGED <<pageVars, users, user_warnings, blocked_transfers, alerts, blacklist,
                   nextHash, pc, req, resp>>

\* The response is delivered; the handler is free for the next request
Return(h) ==
    /\ pc[h] = "done"
    /\ pc' = [pc EXCEPT ![h] = "idle"]
    /\ req' = [req EXCEPT ![h] = NoReq]
    /\ resp' = [resp EXCEPT ![h] = NoResp]
    /\ UNCHANGED <<pageVars, wallets, transactions, users, user_warnings, blocked_transfers,
                   alerts, blacklist, nextHash>>

Next ==
    \/ Ingest
    \/ RegisterWallet
    \/ \E h \in Handlers : fetchReceiverRisk(h)
    \/ \E h \in Handlers : Reject(h)
    \/ \E h \in Handlers : Block(h)
    \/ \E h \in Handlers : Warn(h)
    \/ \E h \in Handlers : Allow(h)
    \/ \E h \in Handlers : Commit(h)
    \/ \E h \in Handlers : CommitFail(h)
    \/ \E h \in Handlers : RetryCommit(h)
    \/ \E h \in Handlers : Return(h)

Spec == Init /\ [][Next]_vars

\* ------------------------------------------------- blacklist governance
\* INSERT INTO blacklist (address, ...): the governance process lists BOB;
\* blacklist.address is UNIQUE, so an address is listed once.
AddToBlacklist ==
    /\ \A e \in blacklist : e.address # BOB
    /\ blacklist' = blacklist \cup {BlacklistEntry(TRUE, NullTime)}
    /\ UNCHANGED <<pageVars, wallets, transactions, users, user_warnings, blocked_transfers,
                   alerts, nextHash, pc, req, resp>>

\* A recipient of HIGH score that is not listed yet
InitListing ==
    /\ Init
    /\ blacklist = {}
    /\ BOB \in DOMAIN wallets => wallets[BOB].risk_score = HighThreshold

NextListing ==
    \/ Next
    \/ AddToBlacklist

\* The engine while the governance process adds an entry to the blacklist
SpecListing == InitListing /\ [][NextListing]_vars

\* ------------------------------------------------- wallets flagged earlier
\* INSERT INTO wallets (..., account_status, ..., flagged_at, flagged_by, ...)
\* with a status other than active, as for the wallets under sanction or
\* review: the wallet of the user carries such a status before any strike.
FlaggedStatuses == {"frozen", "under_review"}

FlaggedWallet(score, status) ==
    [NewWallet(score) EXCEPT !.account_status = status,
                             !.flagged_at = Now - 1,
                             !.flagged_by = "OFAC"]

InitFlagged ==
    /\ \E registered \in BOOLEAN, score \in {HighThreshold, CriticalThreshold},
          status \in FlaggedStatuses :
          wallets = IF registered
                    THEN (ALICE :> FlaggedWallet(AliceScore, status))
                            @@ (BOB :> NewWallet(score))
                    ELSE (ALICE :> FlaggedWallet(AliceScore, status))
    /\ blacklist = {}
    /\ transactions = << >>
    /\ users = [u \in Users |-> [wallet_address |-> ALICE, warning_count |-> 0]]
    /\ user_warnings = << >>
    /\ blocked_transfers = << >>
    /\ alerts = << >>
    /\ nextHash = 1
    /\ pc = [h \in Handlers |-> "idle"]
    /\ req = [h \in Handlers |-> NoReq]
    /\ resp = [h \in Handlers |-> NoResp]
    /\ exchange = ExchangeInitial
    /\ network = NetworkIdle
    /\ session = SessionInitial

\* The engine serving a user whose wallet was flagged before
SpecFlagged == InitFlagged /\ [][Next]_vars

\* ------------------------------------------------- letter case of addresses
\* The address of BOB in its mixed-case (checksum) spelling
BOB_MIXED == <<"0", "x", "B", "0">>

\* String.prototype.toLowerCase() on the characters of an address
LowerChar(c) ==
    CASE c = "A" -> "a" [] c = "B" -> "b" [] c = "C" -> "c"
      [] c = "D" -> "d" [] c = "E" -> "e" [] c = "F" -> "f"
      [] c = "X" -> "x" [] OTHER -> c

\* value.toLowerCase()
toLowerCase(address) == [i \in DOMAIN address |-> LowerChar(address[i])]

\* The rows for BOB, wallet and blacklist entry, are stored in one of the two
\* spellings; requests name BOB in lowercase.
InitCase ==
    /\ \E stored \in {BOB, BOB_MIXED}, listed \in BOOLEAN :
          /\ wallets = (ALICE :> NewWallet(AliceScore))
                          @@ (stored :> NewWallet(HighThreshold))
          /\ blacklist = IF listed
                         THEN {[address |-> stored, is_active |-> TRUE,
                                expires_at |-> NullTime]}
                         ELSE {}
    /\ transactions = << >>
    /\ users = [u \in Users |-> [wallet_address |-> ALICE, warning_count |-> 0]]
    /\ user_warnings = << >>
    /\ blocked_transfers = << >>
    /\ alerts = << >>
    /\ nextHash = 1
    /\ pc = [h \in Handlers |-> "idle"]
    /\ req = [h \in Handlers |-> NoReq]
    /\ resp = [h \in Handlers |-> NoResp]
    /\ exchange = ExchangeInitial
    /\ network = NetworkIdle
    /\ session = SessionInitial

\* The engine over rows stored in either spelling
SpecCase == InitCase /\ [][Next]_vars

\* ------------------------------------------------- users without a wallet
\* users.wallet_address is nullable: registration sends wallet_address only
\* when one was entered, and the user then types the sending address.
InitUnlinked ==
    /\ \E registered \in BOOLEAN, score \in {HighThreshold, CriticalThreshold} :
          wallets = IF registered
                    THEN (ALICE :> NewWallet(AliceScore)) @@ (BOB :> NewWallet(score))
                    ELSE (ALICE :> NewWallet(AliceScore))
    /\ blacklist = {}
    /\ transactions = << >>
    /\ users = [u \in Users |-> [wallet_address |-> NullAddr, warning_count |-> 0]]
    /\ user_warnings = << >>
    /\ blocked_transfers = << >>
    /\ alerts = << >>
    /\ nextHash = 1
    /\ pc = [h \in Handlers |-> "idle"]
    /\ req = [h \in Handlers |-> NoReq]
    /\ resp = [h \in Handlers |-> NoResp]
    /\ exchange = ExchangeInitial
    /\ network = NetworkIdle
    /\ session = SessionInitial

NextUnlinked ==
    \/ Next
    \/ \E h \in Handlers : WarnFail(h)

\* The engine serving a user who registered without a wallet address
SpecUnlinked == InitUnlinked /\ [][NextUnlinked]_vars

\* ------------------------------------------------- transfers to oneself
\* INSERT INTO transactions of a transfer whose from_address is its
\* to_address (an address sending to itself)
IngestSelf ==
    /\ Len(transactions) < MaxLedger
    /\ InsertTransaction(TxRow(transactions, nextHash, ALICE, ALICE, MaxAmount, Now))
    /\ nextHash' = nextHash + 1
    /\ UNCHANGED <<pageVars, users, user_warnings, blocked_transfers, alerts, blacklist,
                   pc, req, resp>>

InitSelf ==
    /\ Init
    /\ blacklist = {}
    /\ BOB \in DOMAIN wallets
          => wallets[BOB].risk_score \in {HighThreshold, CriticalThreshold}

NextSelf ==
    \/ Next
    \/ IngestSelf

\* The engine while transfers of an address to itself are recorded
SpecSelf == InitSelf /\ [][NextSelf]_vars

\* ------------------------------------------------- user exchange page
\* Values typed or pasted into the recipient field
TypedRecipients == {BOB, BOB_NEIGHBOUR, MALFORMED, WALLET_ID}

\* value.startsWith("0x")
startsWith0x(value) ==
    Len(value) >= 2 /\ value[1] = "0" /\ value[2] = "x"

\* A modal dialog is open: the form behind it takes no input
DialogOpen ==
    exchange.showWarningDialog \/ exchange.showBlockedDialog
       \/ exchange.showSuccessDialog

\* data.risk_score that fetchWalletBalance(address) answers with
risk_score_of(address) == Evaluate(blacklist, wallets, address, Now).score

\* onChange of the recipient field: setToWalletId(value), and setToAddress(value)
\* if the value looks like an address; a change of toAddress restarts the
\* debounce timer of the effect watching it.
toWalletIdChange ==
    /\ ~DialogOpen
    /\ \E value \in TypedRecipients :
          LET synced == IF startsWith0x(value) /\ Len(value) >= SyncLength
                        THEN value ELSE exchange.toAddress
          IN exchange' = [exchange EXCEPT
                            !.toWalletId = value,
                            !.toAddress = synced,
                            !.debounce = IF synced # exchange.toAddress THEN TRUE ELSE @]
    /\ UNCHANGED <<engineVars, network, session>>

\* onChange of the amount field: setAmount(e.target.value)
amountChange ==
    /\ ~DialogOpen
    /\ \E value \in Amounts :
          /\ value # exchange.amount
          /\ exchange' = [exchange EXCEPT !.amount = value]
    /\ UNCHANGED <<engineVars, network, session>>

\* The debounce timer fires: fetchReceiverRisk(toAddress) is called for an
\* address starting with 0x, which clears the risk for a short address and
\* otherwise starts fetchWalletBalance; any other value clears the risk.
debounceFires ==
    /\ exchange.debounce
    /\ LET address == exchange.toAddress
       IN IF address # NullAddr /\ startsWith0x(address)
             /\ ~(Len(address) < AddressLength \/ ~startsWith0x(address))
          THEN /\ network' = [network EXCEPT !.lookups = @ \cup {address}]
               /\ exchange' = [exchange EXCEPT !.debounce = FALSE]
          ELSE /\ network' = network
               /\ exchange' = [exchange EXCEPT !.debounce = FALSE,
                                               !.receiverRisk = NoRisk]
    /\ UNCHANGED <<engineVars, session>>

\* fetchWalletBalance(address) resolves: setReceiverRisk({risk_score, risk_level})
lookupResolves ==
    /\ \E address \in network.lookups :
          LET score == risk_score_of(address)
          IN /\ network' = [network EXCEPT !.lookups = @ \ {address}]
             /\ exchange' = [exchange EXCEPT
                               !.receiverRisk = [risk_score |-> score,
                                                 risk_level |-> RiskLevel(score)]]
    /\ UNCHANGED <<engineVars, session>>

\* fetchWalletBalance(address) rejects: setReceiverRisk(null)
lookupRejects ==
    /\ \E address \in network.lookups :
          network' = [network EXCEPT !.lookups = @ \ {address}]
    /\ exchange' = [exchange EXCEPT !.receiverRisk = NoRisk]
    /\ UNCHANGED <<engineVars, session>>

\* transferMutation.mutate({confirmRisk}): mutationFn reads the form as it is
\* now and sends sendProtectedTransfer(fromWalletId, toWalletId, amount, confirmRisk)
mutate(confirmRisk) ==
    /\ network.sent < MaxRequests
    /\ network' = [network EXCEPT
                     !.sent = @ + 1,
                     !.request = [from |-> exchange.fromWalletId,
                                  to |-> exchange.toWalletId,
                                  amount |-> exchange.amount,
                                  confirmRisk |-> confirmRisk],
                     !.status = "pending"]

\* handleSend, behind the Send button, which is disabled while a request is
\* pending or a field is empty
handleSend ==
    /\ ~DialogOpen
    /\ ~exchange.isPending
    /\ ~(exchange.fromWalletId = NullAddr \/ exchange.toWalletId = NullAddr
           \/ exchange.toAddress = NullAddr \/ exchange.amount <= 0)
    /\ mutate(FALSE)
    /\ exchange' = [exchange EXCEPT !.isPending = TRUE]
    /\ UNCHANGED <<engineVars, session>>

\* handleConfirmRisk, behind Proceed Anyway of the warning dialog
handleConfirmRisk ==
    /\ exchange.showWarningDialog
    /\ ~exchange.isPending
    /\ mutate(TRUE)
    /\ exchange' = [exchange EXCEPT !.showWarningDialog = FALSE, !.isPending = TRUE]
    /\ UNCHANGED <<engineVars, session>>

\* handleCancelTransfer, behind Cancel Transfer of the warning dialog
handleCancelTransfer ==
    /\ exchange.showWarningDialog
    /\ exchange' = [exchange EXCEPT !.showWarningDialog = FALSE,
                                    !.transferResponse = "null"]
    /\ UNCHANGED <<engineVars, network, session>>

\* onSuccess(response) of transferMutation
onSuccess ==
    /\ exchange.isPending
    /\ \E status \in {"warning", "blocked", "success"} :
          /\ network' = [network EXCEPT !.status = status]
          /\ exchange' =
               IF status = "warning"
               THEN [exchange EXCEPT !.isPending = FALSE, !.transferResponse = status,
                                     !.showWarningDialog = TRUE]
               ELSE IF status = "blocked"
               THEN [exchange EXCEPT !.isPending = FALSE, !.transferResponse = status,
                                     !.showBlockedDialog = TRUE]
               ELSE [exchange EXCEPT !.isPending = FALSE, !.transferResponse = status,
                                     !.showSuccessDialog = TRUE,
                                     !.toWalletId = NullAddr,
                                     !.toAddress = NullAddr,
                                     !.amount = 0,
                                     !.receiverRisk = NoRisk,
                                     !.debounce = IF exchange.toAddress # NullAddr
                                                  THEN TRUE ELSE @]
    /\ UNCHANGED <<engineVars, session>>

\* onError(error) of transferMutation: the error is logged
onError ==
    /\ exchange.isPending
    /\ network' = [network EXCEPT !.status = "error"]
    /\ exchange' = [exchange EXCEPT !.isPending = FALSE]
    /\ UNCHANGED <<engineVars, session>>

\* onOpenChange(false) of a dialog (Escape, click outside, its close button),
\* and Understood of the blocked dialog, which also clears toAddress and amount
closeDialog ==
    /\ \/ /\ exchange.showWarningDialog
          /\ exchange' = [exchange EXCEPT !.showWarningDialog = FALSE]
       \/ /\ exchange.showBlockedDialog
          /\ exchange' = [exchange EXCEPT !.showBlockedDialog = FALSE]
       \/ /\ exchange.showBlockedDialog
          /\ exchange' = [exchange EXCEPT !.showBlockedDialog = FALSE,
                                          !.toAddress = NullAddr,
                                          !.amount = 0,
                                          !.debounce = IF exchange.toAddress # NullAddr
                                                       THEN TRUE ELSE @]
       \/ /\ exchange.showSuccessDialog
          /\ exchange' = [exchange EXCEPT !.showSuccessDialog = FALSE]
    /\ UNCHANGED <<engineVars, network, session>>

\* The store the page talks to: the recipient BOB at the CRITICAL bound
InitExchange ==
    /\ Init
    /\ blacklist = {}
    /\ BOB \in DOMAIN wallets
    /\ wallets[BOB].risk_score = CriticalThreshold

NextExchange ==
    \/ toWalletIdChange
    \/ amountChange
    \/ debounceFires
    \/ lookupResolves
    \/ lookupRejects
    \/ handleSend
    \/ handleConfirmRisk
    \/ handleCancelTransfer
    \/ onSuccess
    \/ onError
    \/ closeDialog

\* The user exchange page in one browser tab
SpecExchange == InitExchange /\ [][NextExchange]_vars

\* ------------------------------------------------- admin layout and login
AdminPaths == {"/admin/dashboard", "/admin/tracking", "/admin/history"}
Roles      == {"null", "user", "analyst", "admin"}   \* user?.role

\* Variant of the layout's return that looks at authentication only
AdminLayoutIgnoringRole(s) ==
    IF s.isLoading THEN "loading"
    ELSE IF ~s.isAuthenticated THEN "denied"
    ELSE "children"

\* What AdminLayout returns: the loading view, the access-denied view, or the
\* sidebar with {children}
AdminLayout(s) ==
    IF s.isLoading THEN "loading"
    ELSE IF ~s.isAuthenticated \/ s.role # "admin" THEN "denied"
    ELSE "children"

\* The effect of AdminLayout: the timer of the previous run is cleared and,
\* for a visitor who is not an admin, a timer is set that keeps the
\* isAuthenticated and user of this render
redirectEffect(s) ==
    IF ~s.isLoading /\ (~s.isAuthenticated \/ s.role # "admin")
    THEN [armed |-> TRUE, isAuthenticated |-> s.isAuthenticated, role |-> s.role]
    ELSE NoTimer

\* The route is rendered: under /admin the layout renders and its effect
\* runs; on leaving /admin the layout unmounts and the timer is cleared; the
\* state of the login page lasts while /login is shown
Rendered(s) ==
    LET page == IF s.pathname = "/login" THEN s
                ELSE [s EXCEPT !.loginPending = FALSE, !.loginError = FALSE]
    IN  IF s.pathname \in AdminPaths
        THEN [page EXCEPT !.rendered = AdminLayout(s), !.timer = redirectEffect(s)]
        ELSE [page EXCEPT !.rendered = "none", !.timer = NoTimer]

\* The auth context changes what useAuth() returns (session restored,
\* session expired, user reloaded)
authChange ==
    /\ ~session.loginPending
    /\ \E loading \in BOOLEAN, authenticated \in BOOLEAN, role \in Roles :
          /\ <<loading, authenticated, role>>
                # <<session.isLoading, session.isAuthenticated, session.role>>
          /\ session' = Rendered([session EXCEPT !.isLoading = loading,
                                                 !.isAuthenticated = authenticated,
                                                 !.role = role])
    /\ UNCHANGED <<engineVars, exchange, network>>

\* The callback of setTimeout(..., 100) in the effect of AdminLayout
redirectTimer ==
    /\ session.timer.armed
    /\ session' =
         IF ~session.timer.isAuthenticated
         THEN Rendered([session EXCEPT !.pathname = "/login"])
         ELSE IF session.timer.role # "admin"
         THEN Rendered([session EXCEPT !.pathname = "/"])
         ELSE [session EXCEPT !.timer = NoTimer]
    /\ UNCHANGED <<engineVars, exchange, network>>

\* A link of the sidebar, which is part of the admin view
sidebarLink ==
    /\ session.rendered = "children"
    /\ \E href \in AdminPaths :
          /\ href # session.pathname
          /\ session' = [session EXCEPT !.pathname = href]
    /\ UNCHANGED <<engineVars, exchange, network>>

\* handleLogout of the admin view: logout(); router.push("/")
handleLogout ==
    /\ session.rendered = "children"
    /\ session' = Rendered([session EXCEPT !.isAuthenticated = FALSE,
                                           !.role = "null",
                                           !.pathname = "/"])
    /\ UNCHANGED <<engineVars, exchange, network>>

\* The button of the access-denied view: a link to /login for a visitor who
\* is not authenticated, to / otherwise
deniedLink ==
    /\ session.rendered = "denied"
    /\ session' = Rendered([session EXCEPT
                              !.pathname = IF ~session.isAuthenticated
                                           THEN "/login" ELSE "/"])
    /\ UNCHANGED <<engineVars, exchange, network>>

\* The visitor opens a page under /admin
openAdmin ==
    /\ session.pathname \notin AdminPaths
    /\ ~session.loginPending
    /\ \E href \in AdminPaths :
          session' = Rendered([session EXCEPT !.pathname = href])
    /\ UNCHANGED <<engineVars, exchange, network>>

\* handleSubmit of the login page up to await login(...)
handleSubmit ==
    /\ session.pathname = "/login"
    /\ ~session.loginPending
    /\ session' = [session EXCEPT !.loginPending = TRUE, !.loginError = FALSE]
    /\ UNCHANGED <<engineVars, exchange, network>>

\* login(...) resolves: the user is authenticated; router.push("/user/exchange")
loginResolves ==
    /\ session.loginPending
    /\ \E role \in Roles \ {"null"} :
          session' = Rendered([session EXCEPT !.isLoading = FALSE,
                                              !.isAuthenticated = TRUE,
                                              !.role = role,
                                              !.pathname = "/user/exchange",
                                              !.loginPending = FALSE])
    /\ UNCHANGED <<engineVars, exchange, network>>

\* login(...) rejects: setError(...)
loginRejects ==
    /\ session.loginPending
    /\ session' = [session EXCEPT !.loginPending = FALSE, !.loginError = TRUE]
    /\ UNCHANGED <<engineVars, exchange, network>>

InitSession ==
    /\ Init
    /\ blacklist = {}
    /\ BOB \in DOMAIN wallets
    /\ wallets[BOB].risk_score = CriticalThreshold

NextSession ==
    \/ authChange
    \/ redirectTimer
    \/ sidebarLink
    \/ handleLogout
    \/ deniedLink
    \/ openAdmin
    \/ handleSubmit
    \/ loginResolves
    \/ loginRejects

\* A browser session visiting the admin pages; a timer that is set fires
\* unless it is cleared
SpecSession == InitSession /\ [][NextSession]_vars /\ WF_vars(redirectTimer)

\* ------------------------------------------------------------ properties
\* The recipient has a blacklist entry that is active and has not expired
ActiveEntry(address) ==
    \E e \in blacklist : /\ e.address = address
                         /\ e.is_active
                         /\ (e.expires_at = NullTime \/ e.expires_at > Now)

\* The request passes structural validation against the current ledger
ValidNow(r) ==
    /\ Len(r.from) = 4 /\ r.from[1] = "0" /\ r.from[2] = "x"
    /\ Len(r.to) = 4 /\ r.to[1] = "0" /\ r.to[2] = "x"
    /\ r.amount > 0
    /\ total_received(transactions, r.from) - total_sent(transactions, r.from) >= r.amount

\* This step is the gate deciding the request that handler h has just received
Decided(h) == pc[h] = "idle" /\ pc'[h] # "idle"

\* Number of ledger rows that carry a transfer hash
RowsWithHash(ledger, hash) ==
    Cardinality({i \in DOMAIN ledger : ledger[i].tx_hash = hash})

\* Number of suspension alerts in the alerts table
SuspensionAlerts(al) ==
    Cardinality({i \in DOMAIN al : al[i].alert_type = "USER_SUSPENDED"})

\* C1: for every wallet of the registry the cached total_value_sent and
\* total_value_received equal the sums of the ledger over the entries the
\* wallet sent and received, so the cached difference is the derived balance.
CachedTotalsEqualLedger ==
    \A a \in DOMAIN wallets :
        /\ wallets[a].total_value_sent = total_sent(transactions, a)
        /\ wallets[a].total_value_received = total_received(transactions, a)
        /\ wallets[a].total_value_received - wallets[a].total_value_sent
              = balance_wei(transactions, a)

\* C2: a valid transfer whose recipient has an active, unexpired blacklist
\* entry is decided BLOCKED whatever its override flag and the stored score
\* of the recipient, the decision writes nothing to the ledger, and no ledger
\* entry or pending commit ever names such a recipient.
BlacklistedRecipientBlocked ==
    /\ [](\A h \in Handlers :
            (req[h].to # NullAddr /\ ActiveEntry(req[h].to))
               => /\ pc[h] # "committing"
                  /\ resp[h].status \in {"blocked", "rejected"})
    /\ [](\A i \in DOMAIN transactions : ~ActiveEntry(transactions[i].to_address))
    /\ [][\A h \in Handlers :
            (Decided(h) /\ ActiveEntry(req'[h].to) /\ ValidNow(req'[h]))
               => /\ resp'[h].status = "blocked"
                  /\ pc'[h] = "done"
                  /\ transactions' = transactions]_vars

\* C2, reached: a blacklisted recipient with a stored score below every
\* threshold, a request carrying the override, and the response is blocked.
BlacklistedOverrideBlocked ==
    \E h \in Handlers :
        /\ resp[h].status = "blocked"
        /\ req[h].override
        /\ ActiveEntry(req[h].to)
        /\ req[h].to \in DOMAIN wallets
        /\ wallets[req[h].to].risk_score < 60

HighBand(r) ==
    /\ ~ActiveEntry(r.to)
    /\ r.to \in DOMAIN wallets
    /\ wallets[r.to].risk_score >= 60
    /\ wallets[r.to].risk_score < 80

\* C4: a valid transfer to a non-blacklisted recipient with 60 <= score < 80
\* is decided WARNED without override, recording one strike and committing
\* nothing; with override it is decided ALLOWED, records no strike, and its
\* commit appends exactly one ledger entry, the only one with its hash.
HighRiskWarnThenOverride ==
    [][\A h \in Handlers :
         /\ (Decided(h) /\ HighBand(req'[h]) /\ ValidNow(req'[h]) /\ ~req'[h].override)
               => /\ resp'[h].status = "warning"
                  /\ pc'[h] = "done"
                  /\ Len(user_warnings') = Len(user_warnings) + 1
                  /\ transactions' = transactions
         /\ (Decided(h) /\ HighBand(req'[h]) /\ ValidNow(req'[h]) /\ req'[h].override)
               => /\ pc'[h] = "committing"
                  /\ user_warnings' = user_warnings
                  /\ users' = users
                  /\ transactions' = transactions
         /\ (pc[h] = "committing" /\ resp'[h].status = "success")
               => /\ Len(transactions') = Len(transactions) + 1
                  /\ SubSeq(transactions', 1, Len(transactions)) = transactions
                  /\ LET row == transactions'[Len(transactions')]
                     IN /\ row.from_address = req[h].from
                        /\ row.to_address = req[h].to
                        /\ row.value = req[h].amount
                        /\ row.tx_hash = resp'[h].tx_hash
                  /\ RowsWithHash(transactions', resp'[h].tx_hash) = 1]_vars

\* C4, reached: a strike was recorded for the first attempt and the attempt
\* with override has committed its single ledger entry.
OverrideCommitted ==
    \E h \in Handlers :
        /\ resp[h].status = "success"
        /\ req[h].override
        /\ HighBand(req[h])
        /\ Len(user_warnings) >= 1
        /\ RowsWithHash(transactions, resp[h].tx_hash) = 1

\* C5: the strike that takes a user's count to 3 suspends the user's active
\* wallet and raises one suspension alert; every later strike leaves the
\* wallets and the alerts as they are, so there is at most one suspension.
ThirdStrikeSuspendsOnce ==
    /\ [](SuspensionAlerts(alerts) <= 1)
    /\ [][\A u \in Users :
            LET before == users[u].warning_count
                after  == users'[u].warning_count
                wallet == users[u].wallet_address
            IN after # before =>
                 /\ after = before + 1
                 /\ (after = 3 /\ wallets[wallet].account_status = "active")
                       => /\ wallets'[wallet].account_status = "suspended"
                          /\ SuspensionAlerts(alerts') = SuspensionAlerts(alerts) + 1
                          /\ alerts'[Len(alerts')].wallet_address = wallet
                 /\ after < 3 => (wallets' = wallets /\ alerts' = alerts)
                 /\ after > 3 => (wallets' = wallets /\ alerts' = alerts)]_vars

\* C5, reached: a fourth strike on a wallet suspended by the third, one alert.
FourthStrikeAfterSuspension ==
    \E u \in Users :
        /\ users[u].warning_count = 4
        /\ wallets[users[u].wallet_address].account_status = "suspended"
        /\ SuspensionAlerts(alerts) = 1

DuplicateCommitIsNoOp ==
    [][transactions' # transactions
          => /\ Len(transactions') = Len(transactions) + 1
             /\ SubSeq(transactions', 1, Len(transactions)) = transactions
             /\ RowsWithHash(transactions, transactions'[Len(transactions')].tx_hash) = 0]_vars

CommitAllOrNothing ==
    [][\A h \in Handlers :
         (pc[h] = "committing" /\ pc'[h] = "done")
            => \/ /\ resp'[h].status = "success"
                  /\ Len(transactions') = Len(transactions) + 1
                  /\ transactions'[Len(transactions')].tx_hash = resp'[h].tx_hash
                  /\ req[h].from \in DOMAIN wallets'
                  /\ wallets'[req[h].from].total_value_sent
                        = total_sent(transactions', req[h].from)
                  /\ req[h].to \in DOMAIN wallets'
                  /\ wallets'[req[h].to].total_value_received
                        = total_received(transactions', req[h].to)
               \/ /\ resp'[h].status = "error"
                  /\ transactions' = transactions
                  /\ wallets' = wallets]_vars

\* C10: every BLOCKED decision appends exactly one record to the audit
\* table and writes nothing to the ledger, the audit table changes in no
\* other step, and the record's reason is blacklisted when the recipient is
\* blacklisted, whatever its score, and high_risk_score only otherwise.
BlockedWritesOneAuditRecord ==
    [][/\ \A h \in Handlers :
            (Decided(h) /\ resp'[h].status = "blocked")
               => /\ Len(blocked_transfers') = Len(blocked_transfers) + 1
                  /\ SubSeq(blocked_transfers', 1, Len(blocked_transfers))
                        = blocked_transfers
                  /\ transactions' = transactions
                  /\ LET rec == blocked_transfers'[Len(blocked_transfers')]
                     IN /\ rec.sender_address = req'[h].from
                        /\ rec.receiver_address = req'[h].to
                        /\ rec.amount = req'[h].amount
                        /\ resp'[h].block_reason = rec.block_reason
                        /\ ActiveEntry(rec.receiver_address)
                              => rec.block_reason = "blacklisted"
                        /\ ~ActiveEntry(rec.receiver_address)
                              => /\ rec.block_reason = "high_risk_score"
                                 /\ rec.risk_score >= 80
       /\ blocked_transfers' # blocked_transfers
            => \E h \in Handlers : Decided(h) /\ resp'[h].status = "blocked"]_vars

\* C10, reached: a blocked transfer to a recipient that is both blacklisted
\* and scored 80, audited once with the reason blacklisted.
BlacklistedBeatsHighScore ==
    /\ Len(blocked_transfers) = 1
    /\ blocked_transfers[1].block_reason = "blacklisted"
    /\ blocked_transfers[1].risk_score >= 80
    /\ Len(transactions) >= 1
    /\ \E h \in Handlers : resp[h].status = "blocked"

\* C11: a request with a malformed address, an amount <= 0 or an amount
\* above the sender's derived balance is rejected, whatever the blacklist
\* says of the recipient and whatever its score, and the rejection changes
\* no table: no ledger entry, no aggregate, no audit record, no strike.
InvalidRequestChangesNothing ==
    [][\A h \in Handlers :
         (Decided(h) /\ req'[h] # NoReq /\ ~ValidNow(req'[h]))
            => /\ resp'[h].status = "rejected"
               /\ pc'[h] = "done"
               /\ transactions' = transactions
               /\ wallets' = wallets
               /\ blocked_transfers' = blocked_transfers
               /\ users' = users
               /\ user_warnings' = user_warnings
               /\ alerts' = alerts]_vars

\* C11, reached: a positive amount above the balance, to a blacklisted
\* recipient, was rejected with the audit and strike tables still empty.
OverdrawToBlacklistedRejected ==
    \E h \in Handlers :
        /\ resp[h].status = "rejected"
        /\ req[h].amount > 0
        /\ ActiveEntry(req[h].to)
        /\ blocked_transfers = << >>
        /\ user_warnings = << >>

\* The level of the fixed thresholds: >= 80, >= 60, >= 40, below
ThresholdLevel(score) ==
    IF score >= 80 THEN "CRITICAL"
    ELSE IF score >= 60 THEN "HIGH"
    ELSE IF score >= 40 THEN "MEDIUM"
    ELSE "LOW"

\* The lower-case name a badge variant uses for a level
VariantName(level) ==
    CASE level = "CRITICAL" -> "critical"
      [] level = "HIGH" -> "high"
      [] level = "MEDIUM" -> "medium"
      [] OTHER -> "low"

\* C12: for the score of every wallet of the registry, each mapping of a
\* score to a level, the riskLevel of the exchange page and the badge
\* variant of the admin dashboard alike, gives the level of the thresholds
\* 80, 60 and 40, each boundary belonging to the higher level.
LevelsUseFixedThresholds ==
    \A a \in DOMAIN wallets :
        LET score == wallets[a].risk_score
        IN /\ RiskLevel(score) = ThresholdLevel(score)
           /\ BadgeVariant(score) = VariantName(ThresholdLevel(score))

\* C13: as soon as a user's count has reached 3 the user's wallet is
\* suspended, stamped with flagged_at and flagged_by = SYSTEM_AUTO_SUSPEND,
\* and carries a HIGH alert; no state shows a count of 3 with the wallet
\* still active, and none shows the suspension before the third strike.
AutoSuspendIsAtomic ==
    \A u \in Users :
        LET wallet == users[u].wallet_address
        IN /\ users[u].warning_count >= 3
                => /\ wallets[wallet].account_status = "suspended"
                   /\ wallets[wallet].flagged_at # NullTime
                   /\ wallets[wallet].flagged_by = "SYSTEM_AUTO_SUSPEND"
                   /\ \E i \in DOMAIN alerts :
                         /\ alerts[i].wallet_address = wallet
                         /\ alerts[i].severity = "HIGH"
                         /\ alerts[i].alert_type = "USER_SUSPENDED"
           /\ users[u].warning_count < 3
                => /\ wallets[wallet].account_status = "active"
                   /\ wallets[wallet].flagged_by = "NULL"
                   /\ alerts = << >>

\* C13, reached: the count is exactly 3 and the wallet carries the stamp.
ThirdStrikeStamped ==
    \E u \in Users :
        /\ users[u].warning_count = 3
        /\ wallets[users[u].wallet_address].account_status = "suspended"
        /\ wallets[users[u].wallet_address].flagged_by = "SYSTEM_AUTO_SUSPEND"
        /\ Len(alerts) = 1

UnknownRecipientIsLow ==
    [][\A h \in Handlers :
         /\ (/\ Decided(h)
             /\ resp'[h].status = "risk"
             /\ resp'[h].address \notin DOMAIN wallets
             /\ ~ActiveEntry(resp'[h].address))
               => /\ resp'[h].risk_level = "LOW"
                  /\ resp'[h].risk_score = 0
         /\ (/\ Decided(h)
             /\ req'[h] # NoReq
             /\ ValidNow(req'[h])
             /\ req'[h].to \notin DOMAIN wallets
             /\ ~ActiveEntry(req'[h].to))
               => /\ pc'[h] = "committing"
                  /\ users' = users
                  /\ user_warnings' = user_warnings
                  /\ blocked_transfers' = blocked_transfers]_vars

\* C15, reached: a transfer to an unregistered, non-blacklisted recipient
\* is committed and no strike was recorded.
UnknownRecipientCommitted ==
    \E h \in Handlers :
        /\ resp[h].status = "success"
        /\ req[h].to \notin DOMAIN wallets
        /\ ~ActiveEntry(req[h].to)
        /\ user_warnings = << >>

\* The addresses a lookup is asked about
QueriedAddresses == {ALICE, BOB, BOB_NEIGHBOUR, GENESIS, MALFORMED}

TableOutcome(r) ==
    IF ~ValidNow(r) THEN <<"REJECTED", "">>
    ELSE IF ActiveEntry(r.to) THEN <<"BLOCKED", "blacklisted">>
    ELSE IF r.to \in DOMAIN wallets /\ wallets[r.to].risk_score >= 80
         THEN <<"BLOCKED", "high_risk_score">>
    ELSE IF r.to \in DOMAIN wallets /\ wallets[r.to].risk_score >= 60 /\ ~r.override
         THEN <<"WARNED", "">>
    ELSE <<"ALLOWED", "">>

LedgerAddressesRegistered ==
    \A i \in DOMAIN transactions :
        /\ transactions[i].from_address \in DOMAIN wallets
        /\ transactions[i].to_address # NullAddr
              => transactions[i].to_address \in DOMAIN wallets

\* The rows with a NULL to_address (a contract creation) one more INSERT INTO
\* transactions could carry
CandidateRows ==
    { TxRow(transactions, nextHash, from, to, value, Now + 1) :
        from \in {ALICE, BOB}, to \in {NullAddr}, value \in {MaxAmount} }

\* What one commit of row does to the wallet row of address a
CommitEffect(before, after, a, row) ==
    LET sends    == IF a = row.from_address THEN 1 ELSE 0
        receives == IF row.to_address # NullAddr /\ a = row.to_address THEN 1 ELSE 0
    IN after = [before EXCEPT
                  !.total_transactions = @ + sends + receives,
                  !.total_value_sent = @ + sends * row.value,
                  !.total_value_received = @ + receives * row.value,
                  !.last_activity_at = IF sends + receives > 0 THEN row.timestamp ELSE @]

WarnedChangesOnlyStrikes ==
    [][\A h \in Handlers :
          (Decided(h) /\ resp'[h].status = "warning")
             => /\ transactions' = transactions
                /\ nextHash' = nextHash
                /\ DOMAIN wallets' = DOMAIN wallets
                /\ \A a \in DOMAIN wallets :
                      /\ wallets'[a].total_transactions = wallets[a].total_transactions
                      /\ wallets'[a].total_value_sent = wallets[a].total_value_sent
                      /\ wallets'[a].total_value_received
                            = wallets[a].total_value_received
                /\ \A a \in {ALICE, BOB, GENESIS} :
                      balance_wei(transactions', a) = balance_wei(transactions, a)]_vars

\* C21, reached: the WARNED response of the strike that suspends the sender,
\* whose wallet still shows the funding it received.
WarnedWhileSuspending ==
    \E h \in Handlers :
        /\ resp[h].status = "warning"
        /\ resp[h].current_warnings = SuspendThreshold
        /\ wallets[ALICE].account_status = "suspended"
        /\ wallets[ALICE].total_value_received > 0
        /\ balance_wei(transactions, ALICE) > 0

SuspendOnlyFromActive ==
    [][(users[USER].warning_count < SuspendThreshold
          /\ users'[USER].warning_count >= SuspendThreshold)
         => \A a \in DOMAIN wallets :
               wallets[a].account_status \in FlaggedStatuses
                  => /\ wallets'[a].account_status = wallets[a].account_status
                     /\ wallets'[a].flagged_at = wallets[a].flagged_at
                     /\ wallets'[a].flagged_by = wallets[a].flagged_by]_vars

LetterCaseIsIgnored ==
    [][\A h \in Handlers :
          /\ (Decided(h) /\ req'[h] # NoReq /\ ValidNow(req'[h])
                /\ \E e \in blacklist :
                      /\ toLowerCase(e.address) = toLowerCase(req'[h].to)
                      /\ e.is_active
                      /\ (e.expires_at = NullTime \/ e.expires_at > Now))
                => resp'[h].status = "blocked"
          /\ (Decided(h) /\ req'[h] # NoReq /\ ValidNow(req'[h])
                /\ ~req'[h].override
                /\ \E a \in DOMAIN wallets :
                      /\ toLowerCase(a) = toLowerCase(req'[h].to)
                      /\ wallets[a].risk_score >= 60)
                => resp'[h].status \in {"blocked", "warning"}
          /\ (pc[h] = "committing" /\ resp'[h].status = "success")
                => \A a \in DOMAIN wallets :
                      toLowerCase(a) = toLowerCase(req[h].to) /\ a # req[h].from
                         => wallets'[a].total_value_received
                               = wallets[a].total_value_received + req[h].amount]_vars

\* C26: recording the warning that brings a user's warning_count to 3
\* succeeds also when the user has no wallet address: a request that is to be
\* WARNED while the count is 2 takes the count to 3 and adds its UserWarning.
ThirdStrikeRecordedWithoutWallet ==
    [][\A h \in Handlers :
          (Decided(h) /\ req'[h] # NoReq /\ ValidNow(req'[h]) /\ HighBand(req'[h])
             /\ ~req'[h].override
             /\ users[USER].wallet_address = NullAddr
             /\ users[USER].warning_count = SuspendThreshold - 1)
            => /\ users'[USER].warning_count = SuspendThreshold
               /\ Len(user_warnings') = Len(user_warnings) + 1
               /\ user_warnings'[Len(user_warnings')].warning_number
                     = SuspendThreshold]_vars

\* The last row of the ledger is a transfer of address a to itself
SelfTransferOf(ledger, a) ==
    /\ Len(ledger) > 0
    /\ ledger[Len(ledger)].from_address = a
    /\ ledger[Len(ledger)].to_address = a

\* C27: a committed transfer whose sender and receiver are the same address
\* leaves that wallet's derived balance and its cached (received - sent)
\* unchanged, and cached totals that equalled the ledger sums before the commit
\* equal them after it.
SelfTransferKeepsBalance ==
    [][\A a \in DOMAIN wallets :
          (Len(transactions') = Len(transactions) + 1 /\ SelfTransferOf(transactions', a))
             => /\ balance_wei(transactions', a) = balance_wei(transactions, a)
                /\ wallets'[a].total_value_received - wallets'[a].total_value_sent
                      = wallets[a].total_value_received - wallets[a].total_value_sent
                /\ (wallets[a].total_value_sent = total_sent(transactions, a))
                      => (wallets'[a].total_value_sent = total_sent(transactions', a))
                /\ (wallets[a].total_value_received = total_received(transactions, a))
                      => (wallets'[a].total_value_received
                             = total_received(transactions', a))]_vars

\* C27, reached: a funded wallet has sent an amount to itself; its cached
\* totals count the amount on both sides and agree with the ledger.
SelfTransferRecorded ==
    /\ SelfTransferOf(transactions, ALICE)
    /\ transactions[Len(transactions)].value > 0
    /\ wallets[ALICE].total_value_sent = MaxAmount
    /\ wallets[ALICE].total_value_sent = total_sent(transactions, ALICE)
    /\ wallets[ALICE].total_value_received = total_received(transactions, ALICE)
    /\ balance_wei(transactions, ALICE) = MaxAmount

\* C28: on the exchange page no transfer request is started while one is
\* pending, the first request carries confirmRisk = false, and a request with
\* confirmRisk = true is sent only when the request before it returned status
\* warning and had the same sender, recipient and amount.
ConfirmFollowsItsWarning ==
    [][network'.sent = network.sent + 1
         => /\ network.status # "pending"
            /\ network.sent = 0 => ~network'.request.confirmRisk
            /\ network'.request.confirmRisk
                  => /\ network.status = "warning"
                     /\ network'.request.from = network.request.from
                     /\ network'.request.to = network.request.to
                     /\ network'.request.amount = network.request.amount]_vars

\* No receiver-risk lookup is under way or about to start
LookupsCompleted == network.lookups = {} /\ ~exchange.debounce

\* C30: once all receiver-risk lookups have completed, the risk shown on the
\* exchange page is the one of the most recently entered address (a late
\* response for an older address has not overwritten it), and it is the risk
\* of the recipient that Send would submit.
ShownRiskIsOfRecipient ==
    (LookupsCompleted /\ exchange.receiverRisk # NoRisk)
       => /\ exchange.receiverRisk.risk_score = risk_score_of(exchange.toAddress)
          /\ exchange.receiverRisk.risk_score = risk_score_of(exchange.toWalletId)


\* C29: the admin layout renders its children only on a page under /admin,
\* when authentication has finished loading, the user is authenticated and
\* the role is admin; the loading view leads nowhere; a visitor shown the
\* access-denied view leaves for /login when not authenticated and for /
\* when authenticated without the admin role, and does leave that view
AdminContentOnlyForAdmins ==
    /\ [](session.rendered = "children"
            => /\ session.pathname \in AdminPaths
               /\ ~session.isLoading
               /\ session.isAuthenticated
               /\ session.role = "admin")
    /\ [][/\ session.rendered = "loading" => session'.pathname = session.pathname
          /\ (session.rendered = "denied" /\ session'.pathname # session.pathname)
                => /\ session'.rendered = "none"
                   /\ session'.pathname = IF ~session.isAuthenticated
                                          THEN "/login" ELSE "/"]_vars
    /\ (session.rendered = "denied") ~> (session.rendered # "denied")

\* C29 witness: an authenticated analyst has been sent from /admin to /
AnalystSentHome ==
    /\ session.pathname = "/"
    /\ session.isAuthenticated
    /\ session.role = "analyst"
    /\ ~session.timer.armed

====
